---- MODULE Spec2Model ----
(***************************************************************************)
(* Model of the Slack message batching queue and intake pipeline of the   *)
(* operations-center intelligence service.                                 *)
(*                                                                         *)
(* The batch queue (app/queue/message_queue.py) runs on one asyncio event  *)
(* loop: code between two awaits is one atomic step.  An action below is   *)
(* one such step.  Time is a discrete clock in seconds; a sleeping timer   *)
(* whose deadline is reached runs before the clock advances further.       *)
(***************************************************************************)
EXTENDS Integers, Sequences, FiniteSets, TLC

\* ---- bounds of the exploration -------------------------------------------
MaxMsgs == 3          \* webhook deliveries explored per behaviour
MaxTime == 4          \* clock horizon, in seconds

\* ---- program constants ---------------------------------------------------
BATCH_TIMEOUT_SECONDS == 2
MAX_BATCH_SIZE == 10

\* Slack identifiers are strings; they are modelled as character sequences
\* so that the composite key is the concatenation the code builds.
U1 == <<"U", "1">>
C1 == <<"C", "1">>
C2 == <<"C", "2">>
UserIds == {U1}
ChannelIds == {C1, C2}

VARIABLES
    active_queues,    \* _active_queues: dict queue_key -> MessageQueue (a heap reference)
    heap,             \* every MessageQueue object ever constructed, by reference
    timers,           \* every _batch_timer task ever created
    flushes,          \* every _process_queue run that reached processor_callback
    pending_enqueues, \* enqueue_message calls that have not returned to the webhook
    received,         \* every QueuedMessage constructed, in arrival order
    calls,            \* enqueue_message calls made by the webhook since the initial state
    now               \* wall clock, seconds

qvars == <<active_queues, heap, timers, flushes, pending_enqueues, received, calls, now>>

VARIABLES
    cls_pc,           \* MessageClassifier.classify: "idle", "invoked", "returned", "raised"
    cls_out           \* the ClassificationV1 the LLM call produced, or None

cvars == <<cls_pc, cls_out>>

VARIABLES
    in_messages,      \* the flushed batch handed to the intake orchestrator
    in_user_id,       \* its sender id
    in_pc,            \* pipeline position: "validate", "classify", "done"
    in_status,        \* pipeline result status, None while running
    classifier_calls  \* number of calls made to the Classifier Gateway

ivars == <<in_messages, in_user_id, in_pc, in_status, classifier_calls>>

VARIABLES
    bat_messages,     \* batch_messages_for_classification: the messages argument
    bat_pc,           \* "idle", "called", "returned"
    bat_out           \* the returned text, as the pieces concatenated into it

bvars == <<bat_messages, bat_pc, bat_out>>

VARIABLES
    ec_classification, \* create_entities_from_classification: the classification argument
    ec_pc,             \* "idle", "start", "create", "activities", "link", "returned", "done"
    ec_realtor_id,     \* realtor_id
    ec_lookups,        \* calls of resolve_realtor
    ec_listing_id,     \* listing_id, None until the listings insert returns a row
    ec_task_id,        \* task_id, None until the agent_tasks insert returns a row
    listings,          \* rows of table listings
    activities,        \* rows of table activities
    agent_tasks,       \* rows of table agent_tasks
    slack_message,     \* the row of table slack_messages named by message_id
    db_log,            \* every insert and update sent to storage, in order, with its outcome
    ec_result,         \* the dict create_entities_from_classification returns
    ack_channel,       \* channel the batch came from
    ack_messages,      \* the batch, for its primary thread id
    slack_posts,       \* every chat_postMessage call, with its outcome
    ack,               \* send_acknowledgment: called, returned value, exception raised
    pipe_status        \* status the pipeline returns for the batch

evars == <<ec_classification, ec_pc, ec_realtor_id, ec_lookups, ec_listing_id,
           ec_task_id, listings, activities, agent_tasks, slack_message, db_log,
           ec_result, ack_channel, ack_messages, slack_posts, ack, pipe_status>>

VARIABLES
    supabase_available, \* SUPABASE_AVAILABLE of the serverless webhook
    classifications,    \* rows of table classifications (event_id is unique)
    audit_log,          \* rows of table audit_log
    wh_runs             \* every _process_slack_event call, with what it did

hvars == <<supabase_available, classifications, audit_log, wh_runs>>

VARIABLES
    wf_pc,            \* slack_workflow: the node to run next, "END", or "idle"
    wf_state,         \* SlackWorkflowState
    wf_trace,         \* the nodes that have run, in order
    wf_failed,        \* the nodes whose work failed
    wf_effects,       \* storage inserts, entity creations and agent calls made
    wf_result         \* what process_slack_message returns

wvars == <<wf_pc, wf_state, wf_trace, wf_failed, wf_effects, wf_result>>

VARIABLES
    rr_hint,          \* resolve_realtor: the assignee_hint argument
    rr_directory,     \* rows of table realtors, in the order a select returns them
    rr_fail_at,       \* which call of the storage client raises
    rr_pc,            \* "idle", "called", "returned"
    rr_out            \* the value returned, the selects sent, whether one raised

rvars == <<rr_hint, rr_directory, rr_fail_at, rr_pc, rr_out>>

VARIABLES
    ts_messages,      \* the batch given to the two timestamp helpers
    ts_pc,            \* "idle", "called", "extracted", "returned"
    ts_all,           \* what extract_all_message_timestamps returned
    ts_primary        \* what get_primary_thread_ts returned

tvars == <<ts_messages, ts_pc, ts_all, ts_primary>>

\* The components other than queue, classifier and validation gate.
xvars == <<bvars, evars, hvars, wvars, rvars, tvars>>

vars == <<qvars, cvars, ivars, xvars>>

\* What a step of one component leaves alone.
notFlatten == <<qvars, cvars, ivars, evars, hvars, wvars, rvars, tvars>>
notEntities == <<qvars, cvars, ivars, bvars, hvars, wvars, rvars, tvars>>
notWebhook == <<qvars, cvars, ivars, bvars, evars, wvars, rvars, tvars>>
notWorkflow == <<qvars, cvars, ivars, bvars, evars, hvars, rvars, tvars>>
notRealtor == <<qvars, cvars, ivars, bvars, evars, hvars, wvars, tvars>>
notTimestamps == <<qvars, cvars, ivars, bvars, evars, hvars, wvars, rvars>>

None == "None"

\* Python None where the code expects a string (strings are character sequences).
Absent == <<None>>

\* _make_queue_key without the channel: two channels of one user collide.
MakeQueueKeyNoChannel(user_id, channel_id) == user_id \o <<":">>

\* f"{user_id}:{channel_id}"
MakeQueueKey(user_id, channel_id) == user_id \o <<":">> \o channel_id

\* QueuedMessage(event=..., received_at=datetime.now(...), ...)
QueuedMessage(id, user_id, channel_id, at) ==
    [id |-> id, user_id |-> user_id, channel_id |-> channel_id, received_at |-> at]

\* MessageQueue(queue_key=..., user_id=..., channel_id=..., messages=[queued_msg])
MessageQueue(queue_key, user_id, channel_id, msgs) ==
    [queue_key |-> queue_key, user_id |-> user_id, channel_id |-> channel_id,
     messages |-> msgs, timer |-> 0, status |-> "accumulating"]

\* asyncio.create_task(_batch_timer(queue_key, processor_callback, delay))
\* for_queue and count record which batch the timer was started for.
BatchTimerTask(queue_key, delay, q, count) ==
    [queue_key |-> queue_key, state |-> "sleeping", deadline |-> now + delay,
     for_queue |-> q, count |-> count]

\* The size-cap test with ">" for ">=": the cap is noticed one message late.
HitMaxBatchSizeLate(n) == n > MAX_BATCH_SIZE

\* if len(queue.messages) >= MAX_BATCH_SIZE
HitMaxBatchSize(n) == n >= MAX_BATCH_SIZE

\* queue.timer.cancel() guarded by "queue.timer and not queue.timer.done()":
\* a task still inside asyncio.sleep gets CancelledError there.
CancelTimer(ts, t) ==
    IF t # 0 /\ ts[t].state = "sleeping"
    THEN [ts EXCEPT ![t].state = "cancelled"]
    ELSE ts

\* The part of _process_queue up to "await processor_callback(...)":
\* mark the registered queue processing and hand a copy of its messages over.
FlushRecord(queue_key, caller, t) ==
    LET q == active_queues[queue_key] IN
    [queue_key |-> queue_key, queue |-> q,
     messages |-> heap[q].messages,
     user_id |-> heap[q].user_id, channel_id |-> heap[q].channel_id,
     caller |-> caller, timer |-> t, started_at |-> now,
     state |-> "awaiting", escaped |-> FALSE]

\* The state after enqueue_message was called n0 times for one conversation
\* within the same second: one accumulating batch, every timer but the last
\* cancelled by the following call.
BurstQueue(n0) ==
    [queue_key |-> MakeQueueKey(U1, C1), user_id |-> U1, channel_id |-> C1,
     messages |-> [i \in 1..n0 |-> QueuedMessage(i, U1, C1, 0)],
     timer |-> n0, status |-> "accumulating"]

\* A fresh process (empty registry), or a process that has just received a
\* burst that leaves the batch two messages short of MAX_BATCH_SIZE.
InitQueue ==
    /\ now = 0
    /\ calls = 0
    /\ flushes = <<>>
    /\ pending_enqueues = {}
    /\ \E n0 \in {0, MAX_BATCH_SIZE - 2} :
         IF n0 = 0
         THEN /\ active_queues = <<>>
              /\ heap = <<>>
              /\ timers = <<>>
              /\ received = <<>>
         ELSE /\ active_queues = (MakeQueueKey(U1, C1) :> 1)
              /\ heap = <<BurstQueue(n0)>>
              /\ timers = [i \in 1..n0 |->
                             [queue_key |-> MakeQueueKey(U1, C1),
                              state |-> IF i < n0 THEN "cancelled" ELSE "sleeping",
                              deadline |-> BATCH_TIMEOUT_SECONDS,
                              for_queue |-> 1, count |-> i]]
              /\ received = [i \in 1..n0 |-> QueuedMessage(i, U1, C1, 0)]

\* ---- enqueue_message ----------------------------------------------------
\* Branch "queue_key not in _active_queues or status == 'processing'":
\* a fresh MessageQueue replaces whatever is registered, then a timer starts.
EnqueueNew(user_id, channel_id) ==
    LET queue_key == MakeQueueKey(user_id, channel_id)
        queued_msg == QueuedMessage(Len(received) + 1, user_id, channel_id, now)
        q == Len(heap) + 1
        t == Len(timers) + 1
    IN
    /\ calls < MaxMsgs
    /\ IF queue_key \in DOMAIN active_queues
       THEN heap[active_queues[queue_key]].status = "processing"
       ELSE TRUE
    /\ calls' = calls + 1
    /\ received' = Append(received, queued_msg)
    /\ heap' = Append(heap, [MessageQueue(queue_key, user_id, channel_id, <<queued_msg>>)
                                EXCEPT !.timer = t])
    /\ active_queues' = [k \in DOMAIN active_queues \cup {queue_key} |->
                            IF k = queue_key THEN q ELSE active_queues[k]]
    /\ timers' = Append(timers, BatchTimerTask(queue_key, BATCH_TIMEOUT_SECONDS, q, 1))
    /\ UNCHANGED <<flushes, pending_enqueues, now>>
    /\ UNCHANGED <<cvars, ivars, xvars>>

\* The branch taken whatever the status of the registered queue: the test
\* "status == 'processing'" is missing from the condition of the if.
EnqueueAppendAnyStatus(user_id, channel_id) ==
    LET queue_key == MakeQueueKey(user_id, channel_id)
        queued_msg == QueuedMessage(Len(received) + 1, user_id, channel_id, now)
        t == Len(timers) + 1
    IN
    /\ calls < MaxMsgs
    /\ queue_key \in DOMAIN active_queues
    /\ LET q == active_queues[queue_key]
           msgs == Append(heap[q].messages, queued_msg)
       IN
       /\ ~HitMaxBatchSize(Len(msgs))
       /\ heap' = [heap EXCEPT ![q].messages = msgs, ![q].timer = t]
       /\ timers' = Append(CancelTimer(timers, heap[q].timer),
                           BatchTimerTask(queue_key, BATCH_TIMEOUT_SECONDS, q, Len(msgs)))
    /\ calls' = calls + 1
    /\ received' = Append(received, queued_msg)
    /\ UNCHANGED <<active_queues, flushes, pending_enqueues, now>>
    /\ UNCHANGED <<cvars, ivars, xvars>>

\* Branch "add to existing queue" below the size cap: cancel the queue's
\* timer, append, start a new timer.
EnqueueAppend(user_id, channel_id) ==
    LET queue_key == MakeQueueKey(user_id, channel_id)
        queued_msg == QueuedMessage(Len(received) + 1, user_id, channel_id, now)
        t == Len(timers) + 1
    IN
    /\ calls < MaxMsgs
    /\ queue_key \in DOMAIN active_queues
    /\ heap[active_queues[queue_key]].status # "processing"
    /\ LET q == active_queues[queue_key]
           msgs == Append(heap[q].messages, queued_msg)
       IN
       /\ ~HitMaxBatchSize(Len(msgs))
       /\ heap' = [heap EXCEPT ![q].messages = msgs, ![q].timer = t]
       /\ timers' = Append(CancelTimer(timers, heap[q].timer),
                           BatchTimerTask(queue_key, BATCH_TIMEOUT_SECONDS, q, Len(msgs)))
    /\ calls' = calls + 1
    /\ received' = Append(received, queued_msg)
    /\ UNCHANGED <<active_queues, flushes, pending_enqueues, now>>
    /\ UNCHANGED <<cvars, ivars, xvars>>

\* Branch "add to existing queue" reaching the size cap: cancel the timer,
\* append, then "await _process_queue(...)" inline and return without a
\* new timer.  The call stays pending until processor_callback completes.
EnqueueCap(user_id, channel_id) ==
    LET queue_key == MakeQueueKey(user_id, channel_id)
        queued_msg == QueuedMessage(Len(received) + 1, user_id, channel_id, now)
    IN
    /\ calls < MaxMsgs
    /\ queue_key \in DOMAIN active_queues
    /\ heap[active_queues[queue_key]].status # "processing"
    /\ LET q == active_queues[queue_key]
           msgs == Append(heap[q].messages, queued_msg)
       IN
       /\ HitMaxBatchSize(Len(msgs))
       /\ heap' = [heap EXCEPT ![q].messages = msgs, ![q].status = "processing"]
       /\ timers' = CancelTimer(timers, heap[q].timer)
       /\ flushes' = Append(flushes, [FlushRecord(queue_key, "enqueue", 0)
                                         EXCEPT !.messages = msgs])
    /\ pending_enqueues' = pending_enqueues \cup {queued_msg.id}
    /\ calls' = calls + 1
    /\ received' = Append(received, queued_msg)
    /\ UNCHANGED <<active_queues, now>>
    /\ UNCHANGED <<cvars, ivars, xvars>>

\* ---- _batch_timer --------------------------------------------------------
\* asyncio.sleep(delay) is over and the registry still has the key: the
\* timer task enters _process_queue and awaits processor_callback.
BatchTimerFlush(t) ==
    /\ timers[t].state = "sleeping"
    /\ now >= timers[t].deadline
    /\ timers[t].queue_key \in DOMAIN active_queues
    /\ LET queue_key == timers[t].queue_key
           q == active_queues[queue_key]
       IN
       /\ heap' = [heap EXCEPT ![q].status = "processing"]
       /\ flushes' = Append(flushes, FlushRecord(queue_key, "timer", t))
    /\ timers' = [timers EXCEPT ![t].state = "processing"]
    /\ UNCHANGED <<active_queues, pending_enqueues, received, calls, now>>
    /\ UNCHANGED <<cvars, ivars, xvars>>

\* asyncio.sleep(delay) is over and the key is not registered:
\* _process_queue logs "not found" and returns.
BatchTimerNotFound(t) ==
    /\ timers[t].state = "sleeping"
    /\ now >= timers[t].deadline
    /\ timers[t].queue_key \notin DOMAIN active_queues
    /\ timers' = [timers EXCEPT ![t].state = "done"]
    /\ UNCHANGED <<active_queues, heap, flushes, pending_enqueues, received, calls, now>>
    /\ UNCHANGED <<cvars, ivars, xvars>>

\* ---- _process_queue after the await --------------------------------------
\* try / except Exception: the callback's exception is logged, never re-raised.
Handler(outcome) ==
    [state |-> IF outcome = "raise" THEN "raised" ELSE "returned",
     escaped |-> FALSE]

\* The finally clause without the delete.
CleanUpKeep(queue_key) == active_queues

\* finally: if queue_key in _active_queues: del _active_queues[queue_key]
CleanUp(queue_key) ==
    [k \in DOMAIN active_queues \ {queue_key} |-> active_queues[k]]

\* processor_callback returns or raises; the rest of _process_queue runs,
\* and with it the rest of the caller (timer task or enqueue_message).
ProcessQueueFinish(f, outcome) ==
    /\ flushes[f].state = "awaiting"
    /\ flushes' = [flushes EXCEPT ![f].state = Handler(outcome).state,
                                  ![f].escaped = Handler(outcome).escaped]
    /\ active_queues' = CleanUp(flushes[f].queue_key)
    /\ timers' = IF flushes[f].caller = "timer"
                 THEN [timers EXCEPT ![flushes[f].timer].state = "done"]
                 ELSE timers
    /\ pending_enqueues' = IF flushes[f].caller = "enqueue"
                           THEN pending_enqueues \ {flushes[f].messages[Len(flushes[f].messages)].id}
                           ELSE pending_enqueues
    /\ UNCHANGED <<heap, received, calls, now>>
    /\ UNCHANGED <<cvars, ivars, xvars>>

\* processor_callback (process_batched_slack_messages) returns normally.
CallbackReturns(f) == ProcessQueueFinish(f, "return")

\* processor_callback raises an Exception.
CallbackRaises(f) == ProcessQueueFinish(f, "raise")

\* ---- time ----------------------------------------------------------------
\* The event loop runs a timer whose deadline has come before later events.
Tick ==
    /\ now < MaxTime
    /\ \A t \in 1..Len(timers) :
          timers[t].state = "sleeping" => now < timers[t].deadline
    /\ now' = now + 1
    /\ UNCHANGED <<active_queues, heap, timers, flushes, pending_enqueues, received, calls>>
    /\ UNCHANGED <<cvars, ivars, xvars>>

NextQueue ==
    \/ \E u \in UserIds, c \in ChannelIds : EnqueueNew(u, c)
    \/ \E u \in UserIds, c \in ChannelIds : EnqueueAppend(u, c)
    \/ \E u \in UserIds, c \in ChannelIds : EnqueueCap(u, c)
    \/ \E t \in 1..Len(timers) : BatchTimerFlush(t)
    \/ \E t \in 1..Len(timers) : BatchTimerNotFound(t)
    \/ \E f \in 1..Len(flushes) : CallbackReturns(f)
    \/ \E f \in 1..Len(flushes) : CallbackRaises(f)
    \/ Tick

\* ---- ClassificationV1 and MessageClassifier.classify --------------------
MessageType == {"GROUP", "STRAY", "INFO_REQUEST", "IGNORE"}

GroupKey == {"SALE_LISTING", "LEASE_LISTING", "SALE_LEASE_LISTING",
             "SOLD_SALE_LEASE_LISTING", "RELIST_LISTING",
             "RELIST_LISTING_DEAL_SALE_OR_LEASE", "BUY_OR_LEASED",
             "MARKETING_AGENDA_TEMPLATE"}

TaskKey == {"SALE_ACTIVE_TASKS", "SALE_SOLD_TASKS", "SALE_CLOSING_TASKS",
            "LEASE_ACTIVE_TASKS", "LEASE_LEASED_TASKS", "LEASE_CLOSING_TASKS",
            "LEASE_ACTIVE_TASKS_ARLYN", "RELIST_LISTING_DEAL_SALE",
            "RELIST_LISTING_DEAL_LEASE", "BUYER_DEAL", "BUYER_DEAL_CLOSING_TASKS",
            "LEASE_TENANT_DEAL", "LEASE_TENANT_DEAL_CLOSING_TASKS", "PRECON_DEAL",
            "MUTUAL_RELEASE_STEPS", "OPS_MISC_TASK"}

\* The fields of ClassificationV1 that validate_keys reads; pydantic has
\* already restricted each to its enum or None.
ClassificationV1 ==
    [message_type : MessageType,
     task_key : TaskKey \cup {None},
     group_key : GroupKey \cup {None}]

\* ClassificationV1.validate_keys: TRUE when it raises ValueError.
ValidateKeysRaises(c) ==
    LET group_present == c.group_key # None
        task_present == c.task_key # None
    IN
    IF c.message_type \in {"INFO_REQUEST", "IGNORE"}
    THEN group_present \/ task_present
    ELSE group_present = task_present

ClassifierIdle ==
    /\ cls_pc = "idle"
    /\ cls_out = None

\* classification = self.llm.invoke(messages): any schema-valid output.
LlmInvoke ==
    /\ cls_pc = "idle"
    /\ \E c \in ClassificationV1 : cls_out' = c
    /\ cls_pc' = "invoked"
    /\ UNCHANGED <<qvars, ivars, xvars>>

\* classification.validate_keys() passes; classify returns the classification.
ClassifyReturns ==
    /\ cls_pc = "invoked"
    /\ ~ValidateKeysRaises(cls_out)
    /\ cls_pc' = "returned"
    /\ UNCHANGED <<cls_out, qvars, ivars, xvars>>

\* classification.validate_keys() raises; classify raises ValueError.
ClassifyRaises ==
    /\ cls_pc = "invoked"
    /\ ValidateKeysRaises(cls_out)
    /\ cls_pc' = "raised"
    /\ UNCHANGED <<cls_out, qvars, ivars, xvars>>

NextClassifier ==
    \/ LlmInvoke
    \/ ClassifyReturns
    \/ ClassifyRaises

\* ---- intake orchestrator: validation gate --------------------------------
MaxBatchLen == 2      \* longest batch handed to the orchestrator

B1 == <<"B", "1">>

SenderIds == {Absent, <<>>, U1, B1}

\* The text, slack_ts and thread_ts of a QueuedMessage.
IntakeMessage ==
    [text : {"a", "b"}, slack_ts : {"1.0", "2.0"}, thread_ts : {None, "9.0"}]

Batches == UNION {[1..n -> IntakeMessage] : n \in 0..MaxBatchLen}

\* validate_messages without the bot-prefix test.
ValidateMessagesNoBotTest(messages, user_id) ==
    /\ Len(messages) > 0
    /\ user_id # Absent
    /\ user_id # <<>>

\* validate_messages(messages, user_id): False for an empty batch, a missing
\* sender id, or a sender id with the bot prefix.
ValidateMessages(messages, user_id) ==
    /\ Len(messages) > 0
    /\ user_id # Absent
    /\ user_id # <<>>
    /\ user_id[1] # "B"

IntakeIdle ==
    /\ in_messages = <<>>
    /\ in_user_id = Absent
    /\ in_pc = "done"
    /\ in_status = None
    /\ classifier_calls = 0

InitIntake ==
    /\ in_messages \in Batches
    /\ in_user_id \in SenderIds
    /\ in_pc = "validate"
    /\ in_status = None
    /\ classifier_calls = 0

\* Step 1 fails: status skipped, no further step.
IntakeValidateFails ==
    /\ in_pc = "validate"
    /\ ~ValidateMessages(in_messages, in_user_id)
    /\ in_pc' = "done"
    /\ in_status' = "skipped"
    /\ UNCHANGED <<in_messages, in_user_id, classifier_calls, qvars, cvars, xvars>>

\* Step 1 passes: the batch goes on to classification.
IntakeValidatePasses ==
    /\ in_pc = "validate"
    /\ ValidateMessages(in_messages, in_user_id)
    /\ in_pc' = "classify"
    /\ UNCHANGED <<in_messages, in_user_id, in_status, classifier_calls, qvars, cvars, xvars>>

\* Step 3: the Classifier Gateway is called with the flattened text.
IntakeClassify ==
    /\ in_pc = "classify"
    /\ classifier_calls' = classifier_calls + 1
    /\ in_pc' = "classified"
    /\ UNCHANGED <<in_messages, in_user_id, in_status, qvars, cvars, xvars>>

NextIntake ==
    \/ IntakeValidateFails
    \/ IntakeValidatePasses
    \/ IntakeClassify

\* ---- batch_messages_for_classification -----------------------------------
\* A Python string is modelled as the sequence of the pieces concatenated
\* into it; "" is the empty sequence.
PREAMBLE ==
    "User sent the following messages in quick succession. Classify these as a single unit (they are related):\n\n"

\* f"Message {i} [{msg.slack_ts}]: {msg.text}\n"
MessageLine(i, msg) ==
    <<"Message ", ToString(i), " [", msg.slack_ts, "]: ", msg.text, "\n">>

\* for i, msg in enumerate(messages, 1): combined += ...
RECURSIVE CombineFrom(_, _, _, _)
CombineFrom(messages, k, start, combined) ==
    IF k > Len(messages)
    THEN combined
    ELSE CombineFrom(messages, k + 1, start,
                     combined \o MessageLine(start + k - 1, messages[k]))

\* The function with enumerate(messages) counting from 0.
BatchMessagesFromZero(messages) ==
    IF Len(messages) = 0
    THEN <<>>
    ELSE IF Len(messages) = 1
         THEN <<messages[1].text>>
         ELSE CombineFrom(messages, 1, 0, <<PREAMBLE>>)

\* batch_messages_for_classification(messages)
BatchMessagesForClassification(messages) ==
    IF Len(messages) = 0
    THEN <<>>
    ELSE IF Len(messages) = 1
         THEN <<messages[1].text>>
         ELSE CombineFrom(messages, 1, 1, <<PREAMBLE>>)

FlattenIdle ==
    /\ bat_messages = <<>>
    /\ bat_pc = "idle"
    /\ bat_out = <<>>

InitFlatten ==
    /\ bat_messages \in Batches
    /\ bat_pc = "called"
    /\ bat_out = <<>>

\* The call returns the combined text.
FlattenReturns ==
    /\ bat_pc = "called"
    /\ bat_out' = BatchMessagesForClassification(bat_messages)
    /\ bat_pc' = "returned"
    /\ UNCHANGED <<bat_messages, notFlatten>>

NextFlatten == FlattenReturns

\* ---- create_entities_from_classification ---------------------------------
\* The classifications classify can return, one task key standing for all.
EntityInputs ==
    {c \in ClassificationV1 :
        ~ValidateKeysRaises(c) /\ c.task_key \in {None, "OPS_MISC_TASK"}}

\* Outcome of one storage call: a row comes back, no row comes back, or the
\* client raises.
DbOutcomes == {"row", "norow", "raise"}

\* The two answers to an activity insert that create_activity_record tells
\* apart: a row, or a failure it turns into None.
ActivityOutcomes == {"row", "raise"}

\* LISTING_ACTIVITIES with the fallback for every group key only: the names
\* of the "DEFAULT" entry.
ActivitiesTemplateDefaultOnly(group_key) ==
    <<"Review listing details", "Schedule initial showing">>

\* LISTING_ACTIVITIES.get(group_key, LISTING_ACTIVITIES["DEFAULT"]): the
\* activity names of the template, in order.
ActivitiesTemplate(group_key) ==
    CASE group_key = "SALE_LISTING" ->
            <<"Take listing photos", "Create MLS listing", "Schedule open house",
              "Order yard sign", "Draft listing description">>
      [] group_key = "LEASE_LISTING" ->
            <<"Schedule property showings", "Prepare lease agreement",
              "Run background checks", "Take listing photos">>
      [] group_key = "SALE_LEASE_LISTING" ->
            <<"Take listing photos", "Create MLS listing (sale)",
              "Create rental listing", "Draft dual listing description">>
      [] group_key = "RELIST_LISTING" ->
            <<"Update listing photos", "Refresh MLS listing", "Review pricing strategy">>
      [] group_key = "MARKETING_AGENDA_TEMPLATE" ->
            <<"Create marketing materials", "Schedule social media posts",
              "Design property flyer">>
      [] OTHER ->
            <<"Review listing details", "Schedule initial showing">>

\* The insert helpers returning the generated id whatever storage answered.
InsertedIdAlways(outcome, id) == id

\* create_*_record: the id of result.data[0] when a row came back, None when
\* no row came back or the insert raised.
InsertedId(outcome, id) == IF outcome = "row" THEN id ELSE None

\* The task status without the is_info_request test.
TaskStatusAlwaysOpen(is_info_request) == "OPEN"

\* status = "NEEDS_INFO" if is_info_request else "OPEN"
TaskStatus(is_info_request) == IF is_info_request THEN "NEEDS_INFO" ELSE "OPEN"

\* update_data without the processing_status the caller asked for.
UpdateDataKeepStatus(listing_id, task_id, task_type, processing_status) ==
    [processing_status |-> None,
     created_listing_id |-> listing_id,
     created_task_id |-> task_id,
     created_task_type |->
        IF task_id # None
        THEN (IF task_type # None THEN task_type ELSE "agent_task")
        ELSE IF listing_id # None THEN "listing" ELSE None]

\* update_slack_message_with_entity: the update_data dict; a key the code
\* leaves out of the dict is None here.
UpdateData(listing_id, task_id, task_type, processing_status) ==
    [processing_status |-> processing_status,
     created_listing_id |-> listing_id,
     created_task_id |-> task_id,
     created_task_type |->
        IF task_id # None
        THEN (IF task_type # None THEN task_type ELSE "agent_task")
        ELSE IF listing_id # None THEN "listing" ELSE None]

\* .update(update_data).eq("id", message_id) applied by storage: the keys of
\* update_data overwrite the row, the other columns stay.
ApplyUpdate(row, update_data) ==
    [k \in DOMAIN row |->
        IF k \in DOMAIN update_data /\ update_data[k] # None
        THEN update_data[k]
        ELSE row[k]]

\* One call of update_slack_message_with_entity: the update is sent, storage
\* applies it or not, and the returned bool is dropped by the caller.
UpdateSlackMessageWithEntity(listing_id, task_id, task_type, processing_status, outcome) ==
    LET update_data == UpdateData(listing_id, task_id, task_type, processing_status) IN
    /\ slack_message' = IF outcome = "row"
                        THEN ApplyUpdate(slack_message, update_data)
                        ELSE slack_message
    /\ db_log' = Append(db_log, [op |-> "update", table |-> "slack_messages",
                                 data |-> update_data, outcome |-> outcome])

\* The dict returned for IGNORE with status success.
IgnoreResultSuccess ==
    [status |-> "success", entity_type |-> None, entity_id |-> None]

\* return {"status": "skipped", ...}
IgnoreResult ==
    [status |-> "skipped", entity_type |-> None, entity_id |-> None]

\* return {"status": "success", "entity_type": ..., "entity_id": ...}
SuccessResult(entity_type, entity_id) ==
    [status |-> "success", entity_type |-> entity_type, entity_id |-> entity_id]

\* return {"status": "error", ...}
ErrorResult ==
    [status |-> "error", entity_type |-> None, entity_id |-> None]

NoResult == [status |-> None, entity_type |-> None, entity_id |-> None]

InsertsInto(table) ==
    SelectSeq(db_log, LAMBDA e : e.op = "insert" /\ e.table = table)

\* if message_type == MessageType.IGNORE: mark the record skipped, return.
EntitiesIgnore(outcome) ==
    /\ ec_pc = "start"
    /\ ec_classification.message_type = "IGNORE"
    /\ UpdateSlackMessageWithEntity(None, None, None, "skipped", outcome)
    /\ ec_result' = IgnoreResult
    /\ ec_pc' = "returned"
    /\ UNCHANGED <<ec_classification, ec_realtor_id, ec_lookups, ec_listing_id,
                   ec_task_id, listings, activities, agent_tasks>>
    /\ UNCHANGED <<ack_channel, ack_messages, slack_posts, ack, pipe_status, notEntities>>

\* realtor_id = await resolve_realtor(classification.assignee_hint)
ResolveRealtor(realtor_id) ==
    /\ ec_pc = "start"
    /\ ec_classification.message_type # "IGNORE"
    /\ ec_lookups' = ec_lookups + 1
    /\ ec_realtor_id' = realtor_id
    /\ ec_pc' = "create"
    /\ UNCHANGED <<ec_classification, ec_listing_id, ec_task_id, listings, activities,
                   agent_tasks, slack_message, db_log, ec_result>>
    /\ UNCHANGED <<ack_channel, ack_messages, slack_posts, ack, pipe_status, notEntities>>

\* create_listing_record, and the tests of create_listing_with_activities
\* that decide whether the activity loop runs.
CreateListingRecord(outcome) ==
    LET listing_data == [listing_id |-> "L1", status |-> "new",
                         assignee |-> ec_realtor_id]
        listing_id == InsertedId(outcome, listing_data.listing_id)
        group_key == ec_classification.group_key
    IN
    /\ ec_pc = "create"
    /\ ec_classification.message_type = "GROUP"
    /\ listings' = IF outcome = "row" THEN Append(listings, listing_data) ELSE listings
    /\ db_log' = Append(db_log, [op |-> "insert", table |-> "listings",
                                 data |-> listing_data, outcome |-> outcome])
    /\ ec_listing_id' = listing_id
    /\ ec_pc' = IF listing_id = None \/ group_key = None
                THEN "link"
                ELSE "activities"
    /\ UNCHANGED <<ec_classification, ec_realtor_id, ec_lookups, ec_task_id,
                   activities, agent_tasks, slack_message, ec_result>>
    /\ UNCHANGED <<ack_channel, ack_messages, slack_posts, ack, pipe_status, notEntities>>

\* One round of "for activity in activities_template": create_activity_record;
\* a failed insert is only not counted.
CreateActivityRecord(outcome) ==
    LET activities_template == ActivitiesTemplate(ec_classification.group_key)
        i == Len(InsertsInto("activities")) + 1
        activity_data == [listing_id |-> ec_listing_id, name |-> activities_template[i],
                          status |-> "OPEN"]
    IN
    /\ ec_pc = "activities"
    /\ activities' = IF outcome = "row" THEN Append(activities, activity_data) ELSE activities
    /\ db_log' = Append(db_log, [op |-> "insert", table |-> "activities",
                                 data |-> activity_data, outcome |-> outcome])
    /\ ec_pc' = IF i = Len(activities_template) THEN "link" ELSE "activities"
    /\ UNCHANGED <<ec_classification, ec_realtor_id, ec_lookups, ec_listing_id,
                   ec_task_id, listings, agent_tasks, slack_message, ec_result>>
    /\ UNCHANGED <<ack_channel, ack_messages, slack_posts, ack, pipe_status, notEntities>>

\* "if listing_id: ... processed ... success / else: ... failed ... error"
FinishListing(outcome) ==
    /\ ec_pc = "link"
    /\ ec_classification.message_type = "GROUP"
    /\ IF ec_listing_id # None
       THEN /\ UpdateSlackMessageWithEntity(ec_listing_id, None, None, "processed", outcome)
            /\ ec_result' = SuccessResult("listing", ec_listing_id)
       ELSE /\ UpdateSlackMessageWithEntity(None, None, None, "failed", outcome)
            /\ ec_result' = ErrorResult
    /\ ec_pc' = "returned"
    /\ UNCHANGED <<ec_classification, ec_realtor_id, ec_lookups, ec_listing_id,
                   ec_task_id, listings, activities, agent_tasks>>
    /\ UNCHANGED <<ack_channel, ack_messages, slack_posts, ack, pipe_status, notEntities>>

\* create_agent_task_record
CreateAgentTaskRecord(outcome) ==
    LET is_info_request == ec_classification.message_type = "INFO_REQUEST"
        task_data == [task_id |-> "T1", status |-> TaskStatus(is_info_request),
                      realtor_id |-> ec_realtor_id]
    IN
    /\ ec_pc = "create"
    /\ ec_classification.message_type \in {"STRAY", "INFO_REQUEST"}
    /\ agent_tasks' = IF outcome = "row" THEN Append(agent_tasks, task_data) ELSE agent_tasks
    /\ db_log' = Append(db_log, [op |-> "insert", table |-> "agent_tasks",
                                 data |-> task_data, outcome |-> outcome])
    /\ ec_task_id' = InsertedId(outcome, task_data.task_id)
    /\ ec_pc' = "link"
    /\ UNCHANGED <<ec_classification, ec_realtor_id, ec_lookups, ec_listing_id,
                   listings, activities, slack_message, ec_result>>
    /\ UNCHANGED <<ack_channel, ack_messages, slack_posts, ack, pipe_status, notEntities>>

\* "if task_id: ... processed ... success / else: ... failed ... error"
FinishTask(outcome) ==
    /\ ec_pc = "link"
    /\ ec_classification.message_type \in {"STRAY", "INFO_REQUEST"}
    /\ IF ec_task_id # None
       THEN /\ UpdateSlackMessageWithEntity(None, ec_task_id, "agent_task", "processed", outcome)
            /\ ec_result' = SuccessResult("agent_task", ec_task_id)
       ELSE /\ UpdateSlackMessageWithEntity(None, None, None, "failed", outcome)
            /\ ec_result' = ErrorResult
    /\ ec_pc' = "returned"
    /\ UNCHANGED <<ec_classification, ec_realtor_id, ec_lookups, ec_listing_id,
                   ec_task_id, listings, activities, agent_tasks>>
    /\ UNCHANGED <<ack_channel, ack_messages, slack_posts, ack, pipe_status, notEntities>>

\* ---- acknowledgment ------------------------------------------------------
\* The messages of a batch as far as the thread id is concerned.
ThreadMessage == [text : {"a"}, slack_ts : {"1.0"}, thread_ts : {None, "8.0", "9.0"}]

AckBatches == UNION {[1..n -> ThreadMessage] : n \in 1..MaxBatchLen}

\* get_primary_thread_ts: "for msg in messages: if msg.thread_ts: return ..."
RECURSIVE GetPrimaryThreadTsFrom(_, _)
GetPrimaryThreadTsFrom(messages, k) ==
    IF k > Len(messages)
    THEN None
    ELSE IF messages[k].thread_ts \notin {None, ""}
         THEN messages[k].thread_ts
         ELSE GetPrimaryThreadTsFrom(messages, k + 1)

\* The function looking at the first message only.
GetPrimaryThreadTsOfFirst(messages) ==
    IF Len(messages) = 0 THEN None ELSE messages[1].thread_ts

\* get_primary_thread_ts(messages)
GetPrimaryThreadTs(messages) == GetPrimaryThreadTsFrom(messages, 1)

\* Outcome of slack_client.chat_postMessage.
PostOutcomes == {"ok", "SlackApiError", "Exception"}

\* send_acknowledgment posting a task acknowledgment for INFO_REQUEST too.
AckKindAll(classification) ==
    CASE classification.message_type = "GROUP" -> "listing"
      [] classification.message_type \in {"STRAY", "INFO_REQUEST"} -> "task"
      [] OTHER -> None

\* send_acknowledgment: the acknowledgment it routes to, None for
\* INFO_REQUEST and IGNORE ("No acknowledgment needed").
AckKind(classification) ==
    CASE classification.message_type = "GROUP" -> "listing"
      [] classification.message_type = "STRAY" -> "task"
      [] OTHER -> None

\* send_*_acknowledgment with "except SlackApiError" only.
PostHandlerNoCatchAll(outcome) ==
    [ret |-> outcome = "ok", raised |-> outcome = "Exception"]

\* send_*_acknowledgment: True after the post, False from either except clause.
PostHandler(outcome) ==
    [ret |-> outcome = "ok", raised |-> FALSE]

\* send_acknowledgment(classification, channel, thread_ts)
SendAcknowledgment(classification, channel, thread_ts, outcome) ==
    LET kind == AckKind(classification) IN
    IF kind = None
    THEN /\ slack_posts' = slack_posts
         /\ ack' = [called |-> TRUE, ret |-> FALSE, raised |-> FALSE]
    ELSE /\ slack_posts' = Append(slack_posts,
                                  [channel |-> channel, thread_ts |-> thread_ts,
                                   kind |-> kind, outcome |-> outcome])
         /\ ack' = [called |-> TRUE, ret |-> PostHandler(outcome).ret,
                    raised |-> PostHandler(outcome).raised]

\* Pipeline step 6 after materialization returned success: the acknowledgment
\* is sent, its outcome does not enter the returned status.
Acknowledge(outcome) ==
    /\ ec_pc = "returned"
    /\ ec_result.status = "success"
    /\ SendAcknowledgment(ec_classification, ack_channel,
                          GetPrimaryThreadTs(ack_messages), outcome)
    /\ pipe_status' = IF ack'.raised THEN "raised" ELSE ec_result.status
    /\ ec_pc' = "done"
    /\ UNCHANGED <<ec_classification, ec_realtor_id, ec_lookups, ec_listing_id,
                   ec_task_id, listings, activities, agent_tasks, slack_message,
                   db_log, ec_result, ack_channel, ack_messages, notEntities>>

\* Pipeline step 6 after materialization returned skipped or error: no
\* acknowledgment.
AcknowledgeNotSent ==
    /\ ec_pc = "returned"
    /\ ec_result.status # "success"
    /\ pipe_status' = ec_result.status
    /\ ec_pc' = "done"
    /\ UNCHANGED <<ec_classification, ec_realtor_id, ec_lookups, ec_listing_id,
                   ec_task_id, listings, activities, agent_tasks, slack_message,
                   db_log, ec_result, ack_channel, ack_messages, slack_posts, ack,
                   notEntities>>

\* The slack_messages row as store_in_database wrote it.
StoredMessage ==
    [processing_status |-> "classified", created_listing_id |-> None,
     created_task_id |-> None, created_task_type |-> None]

EntitiesRest ==
    /\ ec_realtor_id = None
    /\ ec_lookups = 0
    /\ ec_listing_id = None
    /\ ec_task_id = None
    /\ listings = <<>>
    /\ activities = <<>>
    /\ agent_tasks = <<>>
    /\ slack_message = StoredMessage
    /\ db_log = <<>>
    /\ ec_result = NoResult
    /\ slack_posts = <<>>
    /\ ack = [called |-> FALSE, ret |-> FALSE, raised |-> FALSE]
    /\ pipe_status = None

EntitiesIdle ==
    /\ ec_classification = [message_type |-> "IGNORE", task_key |-> None, group_key |-> None]
    /\ ec_pc = "idle"
    /\ ack_channel = C1
    /\ ack_messages = <<>>
    /\ EntitiesRest

InitEntities ==
    /\ ec_classification \in EntityInputs
    /\ ec_pc = "start"
    /\ ack_channel \in ChannelIds
    /\ ack_messages \in AckBatches
    /\ EntitiesRest

NextEntities ==
    \/ \E outcome \in DbOutcomes : EntitiesIgnore(outcome)
    \/ \E realtor_id \in {None, "R1"} : ResolveRealtor(realtor_id)
    \/ \E outcome \in DbOutcomes : CreateListingRecord(outcome)
    \/ \E outcome \in ActivityOutcomes : CreateActivityRecord(outcome)
    \/ \E outcome \in DbOutcomes : FinishListing(outcome)
    \/ \E outcome \in DbOutcomes : CreateAgentTaskRecord(outcome)
    \/ \E outcome \in DbOutcomes : FinishTask(outcome)
    \/ \E outcome \in PostOutcomes : Acknowledge(outcome)
    \/ AcknowledgeNotSent

\* ---- resolve_realtor ------------------------------------------------------
\* Strings are character sequences, so that "@" in hint, the digit filter
\* and the [-10:] slice are computed on the hint itself.
D10 == <<"0", "1", "2", "3", "4", "5", "6", "7", "8", "9">>

AlRoy == [realtor_id |-> "R1",
          name |-> <<"A", "l", " ", "R", "o", "y">>,
          email |-> <<"a", "@", "b">>,
          phone |-> <<"+", "1">> \o D10]

Al == [realtor_id |-> "R2",
       name |-> <<"A", "l">>,
       email |-> D10 \o <<"@", "b">>,
       phone |-> <<"5", "5", "5">>]

\* States of table realtors.
Directories == {<<>>, <<AlRoy>>, <<Al>>, <<AlRoy, Al>>, <<Al, AlRoy>>}

\* Values of classification.assignee_hint: None, "", names, an email,
\* phone numbers of 10, 11 and 9 digits, an email holding 10 digits.
AssigneeHints ==
    {Absent, <<>>,
     <<"A", "l">>, <<"a", "l">>, <<"z", "z">>,
     <<"a", "@", "b">>,
     D10, <<"1", "-">> \o D10, Tail(D10),
     D10 \o <<"@", "b">>}

\* rr_fail_at = 0: get_supabase() raises; k in 1..4: the k-th select raises;
\* NoFailure: nothing raises.
NoFailure == 5

\* char.isdigit()
IsDigit(char) == char \in {"0", "1", "2", "3", "4", "5", "6", "7", "8", "9"}

\* ''.join(filter(str.isdigit, assignee_hint))
PhoneDigits(assignee_hint) == SelectSeq(assignee_hint, IsDigit)

\* phone_digits[-10:], taken when len(phone_digits) >= 10
LastTen(phone_digits) == SubSeq(phone_digits, Len(phone_digits) - 9, Len(phone_digits))

\* "@" in assignee_hint
LooksLikeEmail(assignee_hint) == \E i \in DOMAIN assignee_hint : assignee_hint[i] = "@"

\* Case folding of ilike over the letters used.
LowerChar(char) ==
    IF char = "A" THEN "a"
    ELSE IF char = "R" THEN "r"
    ELSE char

Lower(str) == [i \in DOMAIN str |-> LowerChar(str[i])]

\* pattern "%value%" of ilike
Contains(str, value) ==
    \E i \in 1..(Len(str) - Len(value) + 1) : SubSeq(str, i, i + Len(value) - 1) = value

\* client.table("realtors").select("realtor_id").eq(...) or .ilike(...),
\* .execute(): result.data
Execute(query, directory) ==
    SelectSeq(directory,
              LAMBDA row : IF query.op = "eq"
                           THEN row[query.column] = query.value
                           ELSE Contains(Lower(row[query.column]), Lower(query.value)))

Select(column, op, value) == [column |-> column, op |-> op, value |-> value]

\* The selects in the order of the docstring: names first, then email, phone.
LookupsNameFirst(assignee_hint) ==
    <<Select("name", "eq", assignee_hint), Select("name", "ilike", assignee_hint)>>
    \o (IF LooksLikeEmail(assignee_hint)
        THEN <<Select("email", "eq", assignee_hint)>>
        ELSE <<>>)
    \o (IF Len(PhoneDigits(assignee_hint)) >= 10
        THEN <<Select("phone", "ilike", LastTen(PhoneDigits(assignee_hint)))>>
        ELSE <<>>)

\* The selects resolve_realtor sends while none returns a row, in the order
\* of its if-blocks.
Lookups(assignee_hint) ==
    (IF LooksLikeEmail(assignee_hint)
     THEN <<Select("email", "eq", assignee_hint)>>
     ELSE <<>>)
    \o (IF Len(PhoneDigits(assignee_hint)) >= 10
        THEN <<Select("phone", "ilike", LastTen(PhoneDigits(assignee_hint)))>>
        ELSE <<>>)
    \o <<Select("name", "eq", assignee_hint), Select("name", "ilike", assignee_hint)>>

Resolved(realtor_id, queries, raised) ==
    [ret |-> realtor_id, queries |-> queries, raised |-> raised]

\* "if result.data and len(result.data) > 0: return result.data[0][...]",
\* block after block; "except Exception: return None".
RECURSIVE RunLookups(_, _, _, _, _)
RunLookups(queries, k, directory, fail_at, sent) ==
    IF k > Len(queries)
    THEN Resolved(None, sent, FALSE)
    ELSE IF fail_at = k
         THEN Resolved(None, Append(sent, queries[k]), TRUE)
         ELSE LET data == Execute(queries[k], directory) IN
              IF Len(data) > 0
              THEN Resolved(data[1].realtor_id, Append(sent, queries[k]), FALSE)
              ELSE RunLookups(queries, k + 1, directory, fail_at, Append(sent, queries[k]))

\* resolve_realtor(assignee_hint)
ResolveRealtorOn(assignee_hint, directory, fail_at) ==
    IF assignee_hint = Absent \/ assignee_hint = <<>>
    THEN Resolved(None, <<>>, FALSE)
    ELSE IF fail_at = 0
         THEN Resolved(None, <<>>, TRUE)
         ELSE RunLookups(Lookups(assignee_hint), 1, directory, fail_at, <<>>)

RealtorIdle ==
    /\ rr_hint = <<>>
    /\ rr_directory = <<>>
    /\ rr_fail_at = NoFailure
    /\ rr_pc = "idle"
    /\ rr_out = Resolved(None, <<>>, FALSE)

InitRealtor ==
    /\ rr_hint \in AssigneeHints
    /\ rr_directory \in Directories
    /\ rr_fail_at \in 0..NoFailure
    /\ rr_pc = "called"
    /\ rr_out = Resolved(None, <<>>, FALSE)

\* The call returns.
ResolveRealtorReturns ==
    /\ rr_pc = "called"
    /\ rr_out' = ResolveRealtorOn(rr_hint, rr_directory, rr_fail_at)
    /\ rr_pc' = "returned"
    /\ UNCHANGED <<rr_hint, rr_directory, rr_fail_at, notRealtor>>

NextRealtor == ResolveRealtorReturns

\* ---- extract_all_message_timestamps, get_primary_thread_ts ----------------
\* The slack_ts and thread_ts of a QueuedMessage; event.get("thread_ts")
\* is None, empty, or a thread id.
StampedMessage ==
    [text : {"a"}, slack_ts : {"1.0", "2.0"}, thread_ts : {None, "", "8.0", "9.0"}]

StampedBatches == UNION {[1..n -> StampedMessage] : n \in 0..MaxBatchLen}

\* [msg.slack_ts for msg in messages]
ExtractAllMessageTimestamps(messages) ==
    [i \in DOMAIN messages |-> messages[i].slack_ts]

TimestampsIdle ==
    /\ ts_messages = <<>>
    /\ ts_pc = "idle"
    /\ ts_all = <<>>
    /\ ts_primary = None

InitTimestamps ==
    /\ ts_messages \in StampedBatches
    /\ ts_pc = "called"
    /\ ts_all = <<>>
    /\ ts_primary = None

\* extract_all_message_timestamps(messages) returns.
ExtractAllReturns ==
    /\ ts_pc = "called"
    /\ ts_all' = ExtractAllMessageTimestamps(ts_messages)
    /\ ts_pc' = "extracted"
    /\ UNCHANGED <<ts_messages, ts_primary, notTimestamps>>

\* get_primary_thread_ts(messages) returns.
GetPrimaryThreadTsReturns ==
    /\ ts_pc = "extracted"
    /\ ts_primary' = GetPrimaryThreadTs(ts_messages)
    /\ ts_pc' = "returned"
    /\ UNCHANGED <<ts_messages, ts_all, notTimestamps>>

NextTimestamps ==
    \/ ExtractAllReturns
    \/ GetPrimaryThreadTsReturns

\* ---- serverless webhook: handler._process_slack_event --------------------
MaxDeliveries == 2    \* event deliveries explored per behaviour

EventIds == {"Ev1", "Ev2"}

\* What the classifications insert answers: a row, no row (result.data[0]
\* then raises IndexError inside the same try), or an exception whose
\* args[0] is a dict with a code, a dict without code, a string, or missing.
InsertAnswers ==
    {[kind |-> "row", code |-> None], [kind |-> "norow", code |-> None],
     [kind |-> "dict", code |-> "23505"], [kind |-> "dict", code |-> "42501"],
     [kind |-> "dict", code |-> None], [kind |-> "str", code |-> None],
     [kind |-> "noargs", code |-> None]}

NoAnswer == [kind |-> None, code |-> None]

StoredEvents == {classifications[i].event_id : i \in 1..Len(classifications)}

\* event_id carries a unique constraint: a second insert of a stored event
\* cannot return a row, and only such an insert raises code 23505.
Storable(event_id, answer) ==
    /\ answer.kind = "row" => event_id \notin StoredEvents
    /\ answer.code = "23505" => event_id \in StoredEvents

\* The except clause treating every storage error as a redelivery.
DbErrorHandlerAllBenign(db_error) == "return"

\* except Exception as db_error: return for a dict with code '23505',
\* otherwise raise (also when reading args[0] fails).
DbErrorHandler(db_error) ==
    IF db_error.kind = "dict" /\ db_error.code = "23505"
    THEN "return"
    ELSE "raise"

Run(event_id, answer, wrote_record, wrote_audit, log) ==
    [event_id |-> event_id, answer |-> answer, wrote_record |-> wrote_record,
     wrote_audit |-> wrote_audit, log |-> log]

\* One call of _process_slack_event(event, event_id); the handler is
\* synchronous, the whole call is one step.
ProcessSlackEvent(event_id, message_text, classify, answer, audit) ==
    /\ Len(wh_runs) < MaxDeliveries
    /\ Storable(event_id, answer)
    /\ IF message_text = ""
       THEN /\ wh_runs' = Append(wh_runs, Run(event_id, NoAnswer, FALSE, FALSE, "empty"))
            /\ UNCHANGED <<classifications, audit_log>>
       ELSE IF classify = "raise"
       THEN /\ wh_runs' = Append(wh_runs, Run(event_id, NoAnswer, FALSE, FALSE, "error"))
            /\ UNCHANGED <<classifications, audit_log>>
       ELSE IF ~supabase_available
       THEN /\ wh_runs' = Append(wh_runs, Run(event_id, NoAnswer, FALSE, FALSE, "not_saved"))
            /\ UNCHANGED <<classifications, audit_log>>
       ELSE IF answer.kind = "row"
       THEN /\ classifications' = Append(classifications,
                                         [event_id |-> event_id, message_type |-> classify])
            /\ audit_log' = IF audit = "ok"
                            THEN Append(audit_log, [resource_id |-> event_id])
                            ELSE audit_log
            /\ wh_runs' = Append(wh_runs, Run(event_id, answer, TRUE, audit = "ok", "saved"))
       ELSE IF DbErrorHandler(answer) = "return"
       THEN /\ wh_runs' = Append(wh_runs, Run(event_id, answer, FALSE, FALSE, "duplicate"))
            /\ UNCHANGED <<classifications, audit_log>>
       ELSE /\ wh_runs' = Append(wh_runs, Run(event_id, answer, FALSE, FALSE, "error"))
            /\ UNCHANGED <<classifications, audit_log>>
    /\ UNCHANGED <<supabase_available, notWebhook>>

WebhookIdle ==
    /\ supabase_available = TRUE
    /\ classifications = <<>>
    /\ audit_log = <<>>
    /\ wh_runs = <<>>

InitWebhook ==
    /\ supabase_available \in BOOLEAN
    /\ classifications = <<>>
    /\ audit_log = <<>>
    /\ wh_runs = <<>>

NextWebhook ==
    \E event_id \in EventIds, message_text \in {"", "a"},
       classify \in MessageType \cup {"raise"}, answer \in InsertAnswers,
       audit \in {"ok", "raise"} :
        ProcessSlackEvent(event_id, message_text, classify, answer, audit)

\* ---- slack_workflow (LangGraph) ------------------------------------------
\* build_slack_workflow: the edge leaving a node; only the edge out of
\* validate looks at the state.
NextNode(node, state) ==
    CASE node = "validate" -> IF state.error # None THEN "error" ELSE "classify"
      [] node = "classify" -> "store"
      [] node = "store" -> "create_entities"
      [] node = "create_entities" -> "route"
      [] node = "route" -> "respond"
      [] node = "respond" -> "END"
      [] node = "error" -> "END"

\* slack_workflow.ainvoke({"slack_event": ..., "messages": []}); a key not
\* yet written is None.
InitialWorkflowState ==
    [error |-> None, classification |-> None, slack_message_id |-> None,
     entity_result |-> None, agent_result |-> None, response |-> None]

NoEffects == [inserts |-> 0, entity_calls |-> 0, agent_calls |-> 0]

NotReturned == [returned |-> FALSE, success |-> FALSE, error |-> None]

\* A node has run: the trace grows and the edge out of the node is followed.
Ran(node, state) ==
    /\ wf_state' = state
    /\ wf_trace' = Append(wf_trace, node)
    /\ wf_pc' = NextNode(node, state)

\* validate_slack_event
ValidateSlackEvent(event) ==
    /\ wf_pc = "validate"
    /\ Ran("validate",
           IF event = "valid"
           THEN wf_state
           ELSE [wf_state EXCEPT !.error = event])
    /\ UNCHANGED <<wf_failed, wf_effects, wf_result, notWorkflow>>

\* classify_message: the classification is stored in the state, or the
\* failure is written to state["error"]; either way the node returns.
ClassifyMessage(outcome) ==
    /\ wf_pc = "classify"
    /\ IF outcome \in MessageType
       THEN /\ Ran("classify", [wf_state EXCEPT !.classification = outcome])
            /\ UNCHANGED wf_failed
       ELSE /\ Ran("classify", [wf_state EXCEPT !.error = outcome])
            /\ wf_failed' = wf_failed \cup {"classify"}
    /\ UNCHANGED <<wf_effects, wf_result, notWorkflow>>

\* store_in_database: the insert is sent whatever the state holds; a failure
\* is logged and the state returned unchanged.
StoreInDatabase(outcome) ==
    /\ wf_pc = "store"
    /\ wf_effects' = [wf_effects EXCEPT !.inserts = @ + 1]
    /\ IF outcome = "row"
       THEN /\ Ran("store", [wf_state EXCEPT !.slack_message_id = "M1"])
            /\ UNCHANGED wf_failed
       ELSE /\ Ran("store", wf_state)
            /\ wf_failed' = wf_failed \cup {"store"}
    /\ UNCHANGED <<wf_result, notWorkflow>>

\* create_entities_node: skipped without classification or message id,
\* otherwise create_entities_from_classification is called.
CreateEntitiesNode(outcome) ==
    /\ wf_pc = "create_entities"
    /\ IF wf_state.classification = None \/ wf_state.slack_message_id = None
       THEN /\ Ran("create_entities", wf_state)
            /\ UNCHANGED wf_effects
       ELSE /\ outcome = "skipped" <=> wf_state.classification = "IGNORE"
            /\ Ran("create_entities", [wf_state EXCEPT !.entity_result = outcome])
            /\ wf_effects' = [wf_effects EXCEPT !.entity_calls = @ + 1]
    /\ UNCHANGED <<wf_failed, wf_result, notWorkflow>>

\* route_to_agent: IGNORE is not routed; anything else, an absent
\* classification included, goes to the orchestrator agent if there is one.
RouteToAgent(outcome) ==
    /\ wf_pc = "route"
    /\ IF wf_state.classification = "IGNORE"
       THEN /\ Ran("route", [wf_state EXCEPT !.agent_result = "ignored"])
            /\ UNCHANGED wf_effects
       ELSE IF outcome = "pending"
       THEN /\ Ran("route", [wf_state EXCEPT !.agent_result = "pending"])
            /\ UNCHANGED wf_effects
       ELSE /\ Ran("route",
                   IF outcome = "raise"
                   THEN [wf_state EXCEPT !.error = "Agent routing failed"]
                   ELSE [wf_state EXCEPT !.agent_result = outcome])
            /\ wf_effects' = [wf_effects EXCEPT !.agent_calls = @ + 1]
    /\ UNCHANGED <<wf_failed, wf_result, notWorkflow>>

\* prepare_response
PrepareResponse ==
    /\ wf_pc = "respond"
    /\ Ran("respond",
           [wf_state EXCEPT !.response =
               IF wf_state.classification = "IGNORE" THEN None
               ELSE IF wf_state.classification = "INFO_REQUEST" THEN "info needed"
               ELSE IF wf_state.agent_result = "success" THEN "processed"
               ELSE IF wf_state.agent_result = "pending" THEN "queued"
               ELSE "received"])
    /\ UNCHANGED <<wf_failed, wf_effects, wf_result, notWorkflow>>

\* handle_error
HandleError ==
    /\ wf_pc = "error"
    /\ Ran("error", [wf_state EXCEPT !.response = None])
    /\ UNCHANGED <<wf_failed, wf_effects, wf_result, notWorkflow>>

\* process_slack_message: "success": not bool(result.get("error"))
ProcessSlackMessageReturns ==
    /\ wf_pc = "END"
    /\ wf_result' = [returned |-> TRUE, success |-> wf_state.error = None,
                     error |-> wf_state.error]
    /\ wf_pc' = "done"
    /\ UNCHANGED <<wf_state, wf_trace, wf_failed, wf_effects, notWorkflow>>

WorkflowRest ==
    /\ wf_state = InitialWorkflowState
    /\ wf_trace = <<>>
    /\ wf_failed = {}
    /\ wf_effects = NoEffects
    /\ wf_result = NotReturned

WorkflowIdle == wf_pc = "idle" /\ WorkflowRest

InitWorkflow == wf_pc = "validate" /\ WorkflowRest

NextWorkflow ==
    \/ \E event \in {"valid", "No Slack event provided", "Bot message - skipping",
                     "Missing required fields in Slack event"} :
           ValidateSlackEvent(event)
    \/ \E outcome \in MessageType \cup {"Classifier agent not available",
                                        "Classification failed"} :
           ClassifyMessage(outcome)
    \/ \E outcome \in {"row", "norow", "raise"} : StoreInDatabase(outcome)
    \/ \E outcome \in {"success", "skipped", "error"} : CreateEntitiesNode(outcome)
    \/ \E outcome \in {"success", "pending", "raise"} : RouteToAgent(outcome)
    \/ PrepareResponse
    \/ HandleError
    \/ ProcessSlackMessageReturns

\* ---- specifications ------------------------------------------------------
QueueIdle ==
    /\ now = 0
    /\ calls = 0
    /\ flushes = <<>>
    /\ pending_enqueues = {}
    /\ active_queues = <<>>
    /\ heap = <<>>
    /\ timers = <<>>
    /\ received = <<>>

\* Every component but the one a specification explores is at rest.
LookupsIdle == RealtorIdle /\ TimestampsIdle

ExtrasIdle == FlattenIdle /\ EntitiesIdle /\ WebhookIdle /\ WorkflowIdle /\ LookupsIdle

Init == InitQueue /\ ClassifierIdle /\ IntakeIdle /\ ExtrasIdle

Next == NextQueue

Spec == Init /\ [][Next]_vars

InitClassifier == QueueIdle /\ ClassifierIdle /\ IntakeIdle /\ ExtrasIdle

SpecClassifier == InitClassifier /\ [][NextClassifier]_vars

InitIntakeSpec == QueueIdle /\ ClassifierIdle /\ InitIntake /\ ExtrasIdle

SpecIntake == InitIntakeSpec /\ [][NextIntake]_vars

BaseIdle == QueueIdle /\ ClassifierIdle /\ IntakeIdle

InitFlattenSpec == BaseIdle /\ InitFlatten /\ EntitiesIdle /\ WebhookIdle /\ WorkflowIdle /\ LookupsIdle

SpecFlatten == InitFlattenSpec /\ [][NextFlatten]_vars

InitEntitiesSpec == BaseIdle /\ FlattenIdle /\ InitEntities /\ WebhookIdle /\ WorkflowIdle /\ LookupsIdle

SpecEntities == InitEntitiesSpec /\ [][NextEntities]_vars

InitWebhookSpec == BaseIdle /\ FlattenIdle /\ EntitiesIdle /\ InitWebhook /\ WorkflowIdle /\ LookupsIdle

SpecWebhook == InitWebhookSpec /\ [][NextWebhook]_vars

InitWorkflowSpec == BaseIdle /\ FlattenIdle /\ EntitiesIdle /\ WebhookIdle /\ InitWorkflow /\ LookupsIdle

SpecWorkflow == InitWorkflowSpec /\ [][NextWorkflow]_vars

WorkersIdle == FlattenIdle /\ EntitiesIdle /\ WebhookIdle /\ WorkflowIdle

InitRealtorSpec == BaseIdle /\ WorkersIdle /\ InitRealtor /\ TimestampsIdle

SpecRealtor == InitRealtorSpec /\ [][NextRealtor]_vars

InitTimestampsSpec == BaseIdle /\ WorkersIdle /\ RealtorIdle /\ InitTimestamps

SpecTimestamps == InitTimestampsSpec /\ [][NextTimestamps]_vars

TypeOK ==
    /\ now \in 0..MaxTime
    /\ calls \in 0..MaxMsgs
    /\ \A k \in DOMAIN active_queues : active_queues[k] \in 1..Len(heap)

\* ---- vocabulary of the properties ----------------------------------------
KeyOf(m) == MakeQueueKey(m.user_id, m.channel_id)

Ids(msgs) == {msgs[i].id : i \in DOMAIN msgs}

Last(msgs) == msgs[Len(msgs)]

AllKeys == {MakeQueueKey(u, c) : u \in UserIds, c \in ChannelIds}

\* The messages of one conversation, in arrival order.
ReceivedFor(k) == SelectSeq(received, LAMBDA m : KeyOf(m) = k)

Gap(R, x) == R[x].received_at - R[x - 1].received_at

\* R[i..j] is a complete burst: consecutive messages less than the debounce
\* window apart, separated from the rest by at least the window.
IsBurst(R, i, j) ==
    /\ i <= j
    /\ i = 1 \/ Gap(R, i) >= BATCH_TIMEOUT_SECONDS
    /\ \A x \in (i + 1)..j : Gap(R, x) < BATCH_TIMEOUT_SECONDS
    /\ IF j = Len(R)
       THEN now >= R[j].received_at + BATCH_TIMEOUT_SECONDS
       ELSE Gap(R, j + 1) >= BATCH_TIMEOUT_SECONDS

\* Nothing is pending for the key: no sleeping timer, no callback in progress.
Quiescent(k) ==
    /\ \A t \in 1..Len(timers) :
          timers[t].queue_key = k => timers[t].state \in {"done", "cancelled"}
    /\ \A f \in 1..Len(flushes) :
          flushes[f].queue_key = k => flushes[f].state # "awaiting"

\* The messages R[i..j] appear, in this order and contiguously, in msgs.
HoldsInOrder(msgs, R, i, j) ==
    \E o \in 0..Len(msgs) :
        /\ o + (j - i + 1) <= Len(msgs)
        /\ \A x \in i..j : msgs[o + (x - i) + 1] = R[x]

FlushesTouching(R, i, j) ==
    {f \in 1..Len(flushes) : Ids(flushes[f].messages) \cap {R[x].id : x \in i..j} # {}}

\* C1 (as claimed): once a conversation is quiescent, every complete burst
\* of fewer than MAX_BATCH_SIZE messages has been handed to
\* processor_callback exactly once, in one call holding all its messages in
\* arrival order.
C1_DebounceOneFlushPerBurst ==
    \A k \in AllKeys :
        Quiescent(k) =>
            LET R == ReceivedFor(k) IN
            \A i \in 1..Len(R), j \in 1..Len(R) :
                (IsBurst(R, i, j) /\ j - i + 1 < MAX_BATCH_SIZE) =>
                    /\ Cardinality(FlushesTouching(R, i, j)) = 1
                    /\ \A f \in FlushesTouching(R, i, j) :
                          HoldsInOrder(flushes[f].messages, R, i, j)

\* C2 (as claimed): a batch is handed to processor_callback at most once,
\* however often a flush of its key is triggered.
C2_BatchFlushedOnce ==
    \A f, g \in 1..Len(flushes) :
        flushes[f].queue = flushes[g].queue => f = g

\* C3: when processor_callback returns or raises, the exception does not
\* leave _process_queue, the key is out of the registry on return, and no
\* flush of a batch starts after a flush of that batch has completed.
C3_FlushCompletion ==
    [][ /\ \A f \in 1..Len(flushes) :
              (flushes[f].state = "awaiting" /\ flushes'[f].state # "awaiting") =>
                  /\ flushes'[f].state \in {"returned", "raised"}
                  /\ ~flushes'[f].escaped
                  /\ flushes[f].queue_key \notin DOMAIN active_queues'
        /\ \A f \in 1..Len(flushes) :
              flushes[f].state # "awaiting" =>
                  \A g \in (Len(flushes) + 1)..Len(flushes') :
                      flushes'[g].queue # flushes[f].queue
      ]_vars

\* C3 witness: a callback has raised, the flush is over and its key is gone.
C3_Witness ==
    \E f \in 1..Len(flushes) :
        /\ flushes[f].state = "raised"
        /\ flushes[f].queue_key \notin DOMAIN active_queues

\* C4 (as claimed): no two processor_callback invocations of one key are in
\* progress at the same time.
C4_SameKeyMutualExclusion ==
    \A f, g \in 1..Len(flushes) :
        ( /\ flushes[f].state = "awaiting"
          /\ flushes[g].state = "awaiting"
          /\ flushes[f].queue_key = flushes[g].queue_key ) => f = g

\* C5: the enqueue_message call that brings an accumulating batch to
\* MAX_BATCH_SIZE messages cancels the batch's pending timer, starts no
\* timer, and starts the flush in the same step with exactly
\* MAX_BATCH_SIZE messages.
C5_SizeCapFlush ==
    [][ \A k \in DOMAIN active_queues :
          LET q == active_queues[k] IN
          ( /\ heap[q].status = "accumulating"
            /\ Len(heap'[q].messages) = Len(heap[q].messages) + 1
            /\ Len(heap'[q].messages) = MAX_BATCH_SIZE ) =>
              /\ heap[q].timer # 0
              /\ timers[heap[q].timer].state = "sleeping"
              /\ timers'[heap[q].timer].state = "cancelled"
              /\ Len(timers') = Len(timers)
              /\ Len(flushes') = Len(flushes) + 1
              /\ LET f == flushes'[Len(flushes')] IN
                 /\ f.queue = q
                 /\ f.caller = "enqueue"
                 /\ f.started_at = Last(heap'[q].messages).received_at
                 /\ f.messages = heap'[q].messages
                 /\ Len(f.messages) = MAX_BATCH_SIZE
      ]_vars

\* C5 witness: a flush started by enqueue_message at the size cap.
C5_Witness ==
    \E f \in 1..Len(flushes) :
        /\ flushes[f].caller = "enqueue"
        /\ Len(flushes[f].messages) = MAX_BATCH_SIZE
        /\ timers[heap[flushes[f].queue].timer].state = "cancelled"

\* C6: a batch only ever holds messages of its own (user_id, channel_id),
\* also when handed to processor_callback; and whatever the state of the
\* other conversations, an enqueue for a conversation and an expired timer
\* of a conversation can take their step.
C6_KeyIsolation ==
    /\ \A q \in 1..Len(heap) : \A i \in 1..Len(heap[q].messages) :
          /\ heap[q].messages[i].user_id = heap[q].user_id
          /\ heap[q].messages[i].channel_id = heap[q].channel_id
    /\ \A f \in 1..Len(flushes) : \A i \in 1..Len(flushes[f].messages) :
          /\ flushes[f].messages[i].user_id = flushes[f].user_id
          /\ flushes[f].messages[i].channel_id = flushes[f].channel_id
    /\ \A u \in UserIds, c \in ChannelIds :
          calls < MaxMsgs =>
              ENABLED (EnqueueNew(u, c) \/ EnqueueAppend(u, c) \/ EnqueueCap(u, c))
    /\ \A t \in 1..Len(timers) :
          (timers[t].state = "sleeping" /\ now >= timers[t].deadline) =>
              ENABLED (BatchTimerFlush(t) \/ BatchTimerNotFound(t))

\* C6 witness: while a callback of one conversation is in progress, a batch
\* of another conversation that arrived later is being flushed as well.
C6_Witness ==
    \E f, g \in 1..Len(flushes) :
        /\ f < g
        /\ flushes[f].state = "awaiting"
        /\ flushes[g].state = "awaiting"
        /\ flushes[f].queue_key # flushes[g].queue_key
        /\ flushes[g].messages[1].received_at >= flushes[f].started_at

\* C7 (as claimed): a timer-triggered flush is done by the timer started
\* with the last message of the flushed batch, one debounce window after
\* that message.
C7_SlidingWindow ==
    \A f \in 1..Len(flushes) :
        flushes[f].caller = "timer" =>
            /\ timers[flushes[f].timer].for_queue = flushes[f].queue
            /\ timers[flushes[f].timer].count = Len(flushes[f].messages)
            /\ flushes[f].started_at =
                   Last(flushes[f].messages).received_at + BATCH_TIMEOUT_SECONDS

\* C8 (as claimed): no enqueue_message call is waiting for
\* processor_callback; every call has returned to the webhook.
C8_EnqueueReturnsBeforeCallback ==
    /\ pending_enqueues = {}
    /\ \A f \in 1..Len(flushes) :
          flushes[f].state = "awaiting" => flushes[f].caller # "enqueue"

\* C9 (as claimed): classify returns a classification exactly when GROUP
\* has group_key and no task_key, STRAY has task_key and no group_key, and
\* INFO_REQUEST / IGNORE have neither; every other combination raises.
KeysExclusive(c) ==
    \/ c.message_type = "GROUP" /\ c.group_key # None /\ c.task_key = None
    \/ c.message_type = "STRAY" /\ c.task_key # None /\ c.group_key = None
    \/ c.message_type \in {"INFO_REQUEST", "IGNORE"} /\ c.group_key = None /\ c.task_key = None

C9_KeyExclusivity ==
    /\ cls_pc = "returned" => KeysExclusive(cls_out)
    /\ cls_pc = "raised" => ~KeysExclusive(cls_out)

\* C10: an empty batch, a batch without sender id, and a batch from a
\* bot-prefixed sender id end skipped without a classifier call; a non-empty
\* batch from a user-prefixed sender id goes on to classification.
RejectedInput ==
    \/ Len(in_messages) = 0
    \/ in_user_id \in {Absent, <<>>}
    \/ in_user_id \notin {Absent, <<>>} /\ in_user_id[1] = "B"

C10_ValidationGate ==
    /\ RejectedInput =>
          /\ classifier_calls = 0
          /\ in_pc \in {"validate", "done"}
          /\ in_pc = "done" => in_status = "skipped"
    /\ ( /\ Len(in_messages) > 0
         /\ in_user_id \notin {Absent, <<>>}
         /\ in_user_id[1] = "U"
         /\ in_pc # "validate" ) =>
          /\ in_pc \in {"classify", "classified"}
          /\ in_status # "skipped"

\* C10 witness: a non-empty batch of a bot-prefixed sender ended skipped
\* with the classifier never called.
C10_Witness ==
    /\ Len(in_messages) > 0
    /\ in_user_id = B1
    /\ in_pc = "done"
    /\ in_status = "skipped"
    /\ classifier_calls = 0

\* C11: batch_messages_for_classification returns "" for an empty batch,
\* the text of the message for a batch of one, and for n > 1 messages the
\* preamble followed by exactly n lines "Message i [slack_ts]: text\n",
\* i = 1..n, in the order of the batch.
C11_BatchTextComposition ==
    bat_pc = "returned" =>
        LET n == Len(bat_messages) IN
        /\ n = 0 => bat_out = <<>>
        /\ n = 1 => bat_out = <<bat_messages[1].text>>
        /\ n > 1 =>
              /\ Len(bat_out) = 1 + 7 * n
              /\ bat_out[1] = PREAMBLE
              /\ \A i \in 1..n :
                    SubSeq(bat_out, 7 * i - 5, 7 * i + 1) =
                        <<"Message ", ToString(i), " [", bat_messages[i].slack_ts,
                          "]: ", bat_messages[i].text, "\n">>

\* C11 witness: a batch of two different messages has been combined.
C11_Witness ==
    /\ bat_pc = "returned"
    /\ Len(bat_messages) = 2
    /\ bat_messages[1] # bat_messages[2]
    /\ Len(bat_out) > 1

\* ---- vocabulary of the materialization properties ------------------------
\* create_entities_from_classification has returned.
Returned == ec_pc \in {"returned", "done"}

Updates == SelectSeq(db_log, LAMBDA e : e.op = "update")

\* The function marked the record: the one update it sent, after every
\* insert, carries this status and these ids, and where storage applied the
\* update the record holds them.
Marked(status, listing_id, task_id) ==
    /\ Len(Updates) = 1
    /\ db_log[Len(db_log)].op = "update"
    /\ Updates[1].table = "slack_messages"
    /\ Updates[1].data.processing_status = status
    /\ Updates[1].data.created_listing_id = listing_id
    /\ Updates[1].data.created_task_id = task_id
    /\ Updates[1].outcome = "row" =>
          /\ slack_message.processing_status = status
          /\ slack_message.created_listing_id = listing_id
          /\ slack_message.created_task_id = task_id

\* Entries of the activity template of each listing type.
TemplateSize(group_key) ==
    CASE group_key = "SALE_LISTING" -> 5
      [] group_key \in {"LEASE_LISTING", "SALE_LEASE_LISTING"} -> 4
      [] group_key \in {"RELIST_LISTING", "MARKETING_AGENDA_TEMPLATE"} -> 3
      [] OTHER -> 2

\* C12: for a GROUP classification whose listing insert returned a row, the
\* function has inserted exactly one listing, first; then attempted one
\* activity insert per entry of the template of the group key (5 for
\* SALE_LISTING), each for that listing, whatever the outcome of the inserts
\* before it; no task is inserted; the record is marked processed with the
\* listing id; the result is success with that listing id.
C12_GroupListingWithActivities ==
    LET c == ec_classification
        li == InsertsInto("listings")
        ai == InsertsInto("activities")
    IN
    (Returned /\ c.message_type = "GROUP" /\ Len(li) > 0 /\ li[1].outcome = "row") =>
        /\ Len(li) = 1
        /\ Len(listings) = 1
        /\ db_log[1].table = "listings"
        /\ c.group_key # None =>
              /\ Len(ai) = TemplateSize(c.group_key)
              /\ \A i \in 1..Len(ai) :
                    /\ db_log[i + 1] = ai[i]
                    /\ ai[i].data.listing_id = listings[1].listing_id
                    /\ ai[i].data.name = ActivitiesTemplate(c.group_key)[i]
        /\ c.group_key = "SALE_LISTING" => Len(ai) = 5
        /\ Len(activities) <= Len(ai)
        /\ InsertsInto("agent_tasks") = <<>>
        /\ Marked("processed", listings[1].listing_id, None)
        /\ ec_result = [status |-> "success", entity_type |-> "listing",
                        entity_id |-> listings[1].listing_id]

\* C12 witness: a SALE_LISTING listing was created, its five activity
\* inserts were attempted and not all of them succeeded, and the function
\* returned success with the record processed.
C12_Witness ==
    /\ Returned
    /\ ec_classification.group_key = "SALE_LISTING"
    /\ Len(listings) = 1
    /\ Len(InsertsInto("activities")) = 5
    /\ Len(activities) < 5
    /\ ec_result.status = "success"
    /\ slack_message.processing_status = "processed"
    /\ slack_message.created_listing_id = "L1"

\* C13: for an IGNORE classification resolve_realtor is never called and no
\* listing, activity or task insert is sent; once the function has returned
\* the record is marked skipped, with no entity id, and the result status
\* is skipped.
C13_IgnoreSkipsEverything ==
    ec_classification.message_type = "IGNORE" =>
        /\ ec_lookups = 0
        /\ \A i \in 1..Len(db_log) : db_log[i].op # "insert"
        /\ listings = <<>> /\ activities = <<>> /\ agent_tasks = <<>>
        /\ Returned =>
              /\ Marked("skipped", None, None)
              /\ ec_result.status = "skipped"
              /\ ec_result.entity_id = None

\* C13 witness: an IGNORE classification has been handled and the record
\* is skipped.
C13_Witness ==
    /\ ec_classification.message_type = "IGNORE"
    /\ Returned
    /\ slack_message.processing_status = "skipped"
    /\ ec_result.status = "skipped"

\* C14: for a STRAY or INFO_REQUEST classification exactly one task insert
\* is sent and no listing or activity insert; the task's status is
\* NEEDS_INFO for INFO_REQUEST and OPEN for STRAY; when the insert returned a
\* row there is exactly one task, the record is marked processed with the
\* task id linked as an agent task, and the result is success.
C14_TaskForStrayOrInfoRequest ==
    LET c == ec_classification
        ti == InsertsInto("agent_tasks")
    IN
    (Returned /\ c.message_type \in {"STRAY", "INFO_REQUEST"}) =>
        /\ Len(ti) = 1
        /\ ti[1].data.status = "NEEDS_INFO" <=> c.message_type = "INFO_REQUEST"
        /\ ti[1].data.status = "OPEN" <=> c.message_type = "STRAY"
        /\ InsertsInto("listings") = <<>>
        /\ InsertsInto("activities") = <<>>
        /\ listings = <<>> /\ activities = <<>>
        /\ Len(agent_tasks) <= 1
        /\ ti[1].outcome = "row" =>
              /\ agent_tasks = <<ti[1].data>>
              /\ Marked("processed", None, ti[1].data.task_id)
              /\ Updates[1].data.created_task_type = "agent_task"
              /\ ec_result = [status |-> "success", entity_type |-> "agent_task",
                              entity_id |-> ti[1].data.task_id]

\* C14 witness: an INFO_REQUEST produced one NEEDS_INFO task linked to the
\* processed record.
C14_Witness ==
    /\ Returned
    /\ ec_classification.message_type = "INFO_REQUEST"
    /\ Len(agent_tasks) = 1
    /\ agent_tasks[1].status = "NEEDS_INFO"
    /\ slack_message.processing_status = "processed"
    /\ slack_message.created_task_id = agent_tasks[1].task_id
    /\ ec_result.status = "success"

\* C15: when the listing insert or the task insert returned no row or
\* raised, the function still returns, with status error and no entity id;
\* nothing more is inserted; the record is kept, marked failed, and no
\* listing or task id is linked to it.
C15_MaterializationFailure ==
    LET c == ec_classification
        li == InsertsInto("listings")
        ti == InsertsInto("agent_tasks")
        failed == \/ c.message_type = "GROUP" /\ Len(li) > 0 /\ li[1].outcome # "row"
                  \/ Len(ti) > 0 /\ ti[1].outcome # "row"
    IN
    /\ failed =>
          /\ listings = <<>> /\ activities = <<>> /\ agent_tasks = <<>>
          /\ InsertsInto("activities") = <<>>
          /\ ec_pc \in {"link", "returned", "done"}
          /\ slack_message.created_listing_id = None
          /\ slack_message.created_task_id = None
    /\ (failed /\ Returned) =>
          /\ ec_result = [status |-> "error", entity_type |-> None, entity_id |-> None]
          /\ Marked("failed", None, None)
    /\ (failed /\ ec_pc = "link") =>
          ENABLED (\E o \in DbOutcomes : FinishListing(o) \/ FinishTask(o))

\* C15 witness: the task insert raised, the function returned error and the
\* record is failed with nothing linked.
C15_Witness ==
    /\ Returned
    /\ Len(InsertsInto("agent_tasks")) = 1
    /\ InsertsInto("agent_tasks")[1].outcome = "raise"
    /\ ec_result.status = "error"
    /\ slack_message.processing_status = "failed"
    /\ slack_message.created_task_id = None

\* C16: on every path the function sends no update of the record before its
\* last step and exactly one on returning, last of all its storage calls,
\* with status processed, skipped or failed; where storage applied it the
\* record ends with that status; the record is only ever updated, never
\* inserted again or deleted.
C16_RecordUpdatedOnce ==
    /\ ~Returned =>
          /\ Updates = <<>>
          /\ slack_message = StoredMessage
    /\ Returned =>
          /\ Len(Updates) = 1
          /\ db_log[Len(db_log)] = Updates[1]
          /\ Updates[1].data.processing_status \in {"processed", "skipped", "failed"}
          /\ Updates[1].outcome = "row" =>
                slack_message.processing_status = Updates[1].data.processing_status
    /\ \A i \in 1..Len(db_log) :
          /\ db_log[i].op \in {"insert", "update"}
          /\ db_log[i].table = "slack_messages" <=> db_log[i].op = "update"
    /\ DOMAIN slack_message = DOMAIN StoredMessage

\* C16 witness: the failure path of a GROUP classification ran to the end of
\* the pipeline with the record updated once, to failed.
C16_Witness ==
    /\ ec_pc = "done"
    /\ ec_classification.message_type = "GROUP"
    /\ Len(Updates) = 1
    /\ Updates[1].outcome = "row"
    /\ slack_message.processing_status = "failed"

\* The thread id of the first message of the batch that has one.
PrimaryThread(messages) ==
    LET S == {i \in 1..Len(messages) : messages[i].thread_ts \notin {None, ""}} IN
    IF S = {}
    THEN None
    ELSE messages[CHOOSE i \in S : \A j \in S : i <= j].thread_ts

\* At most one acknowledgment, posted to the channel of the batch and
\* threaded to its primary thread id.
PostsWellAddressed ==
    /\ Len(slack_posts) <= 1
    /\ \A i \in 1..Len(slack_posts) :
          /\ slack_posts[i].channel = ack_channel
          /\ slack_posts[i].thread_ts = PrimaryThread(ack_messages)

\* C17 (as claimed): at the end of the pipeline an acknowledgment has been
\* posted exactly when materialization returned success, to the channel of
\* the batch and threaded to its primary thread id.
C17_AckExactlyOnSuccess ==
    /\ PostsWellAddressed
    /\ ec_pc # "done" => slack_posts = <<>>
    /\ ec_pc = "done" =>
          (Len(slack_posts) = 1 <=> ec_result.status = "success")

\* C17 (amended): at the end of the pipeline an acknowledgment has been
\* posted exactly when materialization returned success for a GROUP or a
\* STRAY classification, to the channel of the batch and threaded to its
\* primary thread id; for INFO_REQUEST, skipped and error nothing is posted.
C17_AckOnListingOrTaskSuccess ==
    /\ PostsWellAddressed
    /\ ec_pc # "done" => slack_posts = <<>>
    /\ ec_pc = "done" =>
          ( Len(slack_posts) = 1 <=>
              /\ ec_result.status = "success"
              /\ ec_classification.message_type \in {"GROUP", "STRAY"} )
    /\ \A i \in 1..Len(slack_posts) :
          slack_posts[i].kind =
              IF ec_classification.message_type = "GROUP" THEN "listing" ELSE "task"

\* C17 witness: a STRAY batch whose second message is the first in a thread
\* was materialized and acknowledged in that thread.
C17_Witness ==
    /\ ec_pc = "done"
    /\ ec_classification.message_type = "STRAY"
    /\ ec_result.status = "success"
    /\ Len(ack_messages) = 2
    /\ ack_messages[1].thread_ts = None
    /\ ack_messages[2].thread_ts = "8.0"
    /\ Len(slack_posts) = 1
    /\ slack_posts[1].thread_ts = "8.0"

\* C18: a post that Slack rejects or that raises makes send_acknowledgment
\* return False, a post that goes through True; in no case does an
\* exception leave send_acknowledgment, and the status of the pipeline is
\* the status materialization returned.
C18_AckFailureNotRaised ==
    (ec_pc = "done" /\ ack.called) =>
        /\ ~ack.raised
        /\ \A i \in 1..Len(slack_posts) :
              ack.ret = (slack_posts[i].outcome = "ok")
        /\ slack_posts = <<>> => ~ack.ret
        /\ pipe_status = ec_result.status
        /\ pipe_status = "success"

\* C18 witness: the post of a listing acknowledgment raised an unexpected
\* exception; send_acknowledgment returned False and the status is success.
C18_Witness ==
    /\ ec_pc = "done"
    /\ Len(slack_posts) = 1
    /\ slack_posts[1].kind = "listing"
    /\ slack_posts[1].outcome = "Exception"
    /\ ~ack.ret
    /\ ~ack.raised
    /\ pipe_status = "success"

\* C19: a classifications insert that raises the unique-constraint error
\* (code 23505) for an event already stored ends the call quietly: no record
\* and no audit entry is written, no table of entities is touched, and the
\* call logs no error; an insert failing in any other way is logged as an
\* error.  No event ever has two records.
C19_DuplicateRedelivery ==
    /\ \A i \in 1..Len(wh_runs) :
          LET r == wh_runs[i] IN
          /\ (r.answer.kind = "dict" /\ r.answer.code = "23505") =>
                /\ r.log = "duplicate"
                /\ ~r.wrote_record
                /\ ~r.wrote_audit
                /\ \E j \in 1..(i - 1) :
                      wh_runs[j].event_id = r.event_id /\ wh_runs[j].wrote_record
          /\ (r.answer.kind \notin {None, "row"} /\ r.answer.code # "23505") =>
                /\ r.log = "error"
                /\ ~r.wrote_record
                /\ ~r.wrote_audit
          /\ r.log = "duplicate" => r.answer.code = "23505"
    /\ \A i, j \in 1..Len(classifications) :
          classifications[i].event_id = classifications[j].event_id => i = j
    /\ Len(classifications) = Cardinality({i \in 1..Len(wh_runs) : wh_runs[i].wrote_record})
    /\ Len(audit_log) = Cardinality({i \in 1..Len(wh_runs) : wh_runs[i].wrote_audit})
    /\ listings = <<>> /\ activities = <<>> /\ agent_tasks = <<>>

\* C19 witness: an event was stored with its audit entry, then delivered
\* again; the second call met the unique constraint and left one record and
\* one audit entry.
C19_Witness ==
    /\ Len(wh_runs) = 2
    /\ wh_runs[1].event_id = wh_runs[2].event_id
    /\ wh_runs[1].log = "saved"
    /\ wh_runs[2].answer.code = "23505"
    /\ wh_runs[2].log = "duplicate"
    /\ Len(classifications) = 1
    /\ Len(audit_log) = 1

\* C20 (as claimed): once classify has failed, store, create_entities and
\* route do not run; once store has failed, create_entities and the later
\* nodes do not run; and in both cases process_slack_message reports an
\* error.
C20_PipelineShortCircuit ==
    LET ran == {wf_trace[i] : i \in 1..Len(wf_trace)} IN
    /\ "classify" \in wf_failed =>
          /\ ran \cap {"store", "create_entities", "route"} = {}
          /\ wf_effects = NoEffects
          /\ wf_result.returned => ~wf_result.success
    /\ "store" \in wf_failed =>
          /\ ran \cap {"create_entities", "route", "respond"} = {}
          /\ wf_effects.agent_calls = 0
          /\ wf_result.returned => ~wf_result.success

\* ---- vocabulary of the realtor lookup properties ------------------------
\* Place of a select in the priority order: email, phone, exact name,
\* case-insensitive substring of the name.
Rank(query) ==
    IF query.column = "email" /\ query.op = "eq" THEN 1
    ELSE IF query.column = "phone" /\ query.op = "ilike" THEN 2
    ELSE IF query.column = "name" /\ query.op = "eq" THEN 3
    ELSE IF query.column = "name" /\ query.op = "ilike" THEN 4
    ELSE 0

\* The strategies a hint qualifies for.
Applicable(hint) ==
    (IF LooksLikeEmail(hint) THEN {1} ELSE {})
    \cup (IF Len(PhoneDigits(hint)) >= 10 THEN {2} ELSE {})
    \cup {3, 4}

EmptyHint(hint) == hint = Absent \/ hint = <<>>

C22_ThreadAndTimestamps ==
    /\ ts_pc \in {"extracted", "returned"} =>
          /\ Len(ts_all) = Len(ts_messages)
          /\ \A i \in 1..Len(ts_messages) : ts_all[i] = ts_messages[i].slack_ts
    /\ ts_pc = "returned" =>
          LET threaded == {i \in 1..Len(ts_messages) :
                              ts_messages[i].thread_ts \notin {None, ""}}
          IN
          IF threaded = {}
          THEN ts_primary = None
          ELSE \E i \in threaded :
                  /\ \A j \in threaded : i <= j
                  /\ ts_primary = ts_messages[i].thread_ts

\* A batch whose first message has an empty thread_ts and whose second has
\* a thread id, with two different slack_ts.
C22_Witness ==
    /\ ts_pc = "returned"
    /\ Len(ts_messages) = 2
    /\ ts_messages[1].thread_ts = ""
    /\ ts_primary = "9.0"
    /\ ts_all = <<"2.0", "1.0">>

\* ---- vocabulary of the registry properties -------------------------------
Msgs(seq) == {seq[i] : i \in 1..Len(seq)}

\* m was handed to processor_callback by flush f.
PassedBy(m, f) == m.id \in Ids(flushes[f].messages)

Passed(m) == \E f \in 1..Len(flushes) : PassedBy(m, f)

\* The batch object q is the registry entry of its key.
Registered(q) ==
    /\ heap[q].queue_key \in DOMAIN active_queues
    /\ active_queues[heap[q].queue_key] = q

\* A flush of batch q has started and processor_callback has not completed.
MidFlush(q) ==
    \E f \in 1..Len(flushes) : flushes[f].queue = q /\ flushes[f].state = "awaiting"

\* The debounce timers of key k that are neither cancelled nor finished.
PendingTimers(k) ==
    {t \in 1..Len(timers) : timers[t].queue_key = k /\ timers[t].state = "sleeping"}

\* C23 (as claimed): no message is lost.  A batch that is not the registry
\* entry of its key can never be flushed, so every accepted message has
\* been passed to processor_callback or is held by the registered batch of
\* its key, from which a flush will take it.
C23_NoMessageLost ==
    \A m \in Msgs(received) :
        \/ Passed(m)
        \/ /\ KeyOf(m) \in DOMAIN active_queues
           /\ m.id \in Ids(heap[active_queues[KeyOf(m)]].messages)

\* m arrived at the deadline of the timer of its batch and cancelled it.
ArrivedAndCancelled(m) ==
    \E t \in 1..Len(timers) :
        /\ timers[t].queue_key = KeyOf(m)
        /\ timers[t].deadline = m.received_at
        /\ timers[t].state = "cancelled"
        /\ LET q == timers[t].for_queue IN
           /\ Len(heap[q].messages) > timers[t].count
           /\ heap[q].messages[timers[t].count + 1].id = m.id

\* m arrived at the deadline of the timer of the registered batch when the
\* timer was already past its sleep and in the flush.
ArrivedPastSleep(m) ==
    \E f \in 1..Len(flushes) :
        /\ flushes[f].caller = "timer"
        /\ flushes[f].queue_key = KeyOf(m)
        /\ timers[flushes[f].timer].for_queue = flushes[f].queue
        /\ timers[flushes[f].timer].deadline = m.received_at
        /\ flushes[f].started_at = m.received_at
        /\ ~PassedBy(m, f)
        /\ \E q \in (flushes[f].queue + 1)..Len(heap) : heap[q].messages[1].id = m.id

CancellationRace ==
    \E m \in Msgs(received) : ArrivedAndCancelled(m) \/ ArrivedPastSleep(m)

\* C24 (as claimed): in a behaviour where a message arrived at the moment
\* the debounce timer of its key expired, whichever of the two ran first,
\* no message is passed to processor_callback by two invocations.
C24_AtMostOnceUnderCancellationRace ==
    CancellationRace =>
        \A f, g \in 1..Len(flushes) :
            f # g => Ids(flushes[f].messages) \cap Ids(flushes[g].messages) = {}

\* C25 (as claimed): a batch is the registry entry of its key exactly when
\* it is accumulating or its flush is in progress.
C25_RegistryInvariant ==
    \A q \in 1..Len(heap) :
        Registered(q) <=> (heap[q].status = "accumulating" \/ MidFlush(q))

\* C26: an enqueue for a key whose registered batch is processing leaves
\* that batch and every message list handed to processor_callback as they
\* are, and registers a fresh accumulating batch holding only the new
\* message, with a new sleeping timer of one debounce window; no batch goes
\* from processing back to accumulating.
C26_NoAppendWhileProcessing ==
    [][ /\ \A k \in DOMAIN active_queues :
              LET q == active_queues[k] IN
              ( /\ heap[q].status = "processing"
                /\ Len(received') = Len(received) + 1
                /\ KeyOf(Last(received')) = k ) =>
                  /\ heap'[q] = heap[q]
                  /\ \A f \in 1..Len(flushes) : flushes'[f].messages = flushes[f].messages
                  /\ Len(flushes') = Len(flushes)
                  /\ Len(heap') = Len(heap) + 1
                  /\ active_queues'[k] = Len(heap')
                  /\ heap'[Len(heap')].messages = <<Last(received')>>
                  /\ heap'[Len(heap')].status = "accumulating"
                  /\ Len(timers') = Len(timers) + 1
                  /\ heap'[Len(heap')].timer = Len(timers')
                  /\ timers'[Len(timers')].state = "sleeping"
                  /\ timers'[Len(timers')].queue_key = k
                  /\ timers'[Len(timers')].deadline = now + BATCH_TIMEOUT_SECONDS
        /\ \A q \in 1..Len(heap) :
              heap[q].status = "processing" => heap'[q].status = "processing"
      ]_vars

\* C26 witness: while processor_callback runs on a batch, a message that
\* arrived after the flush began sits alone in a fresh accumulating batch
\* registered under the key, with its own sleeping timer.
C26_Witness ==
    \E f \in 1..Len(flushes) :
        /\ flushes[f].state = "awaiting"
        /\ heap[flushes[f].queue].status = "processing"
        /\ heap[flushes[f].queue].messages = flushes[f].messages
        /\ flushes[f].queue_key \in DOMAIN active_queues
        /\ LET q == active_queues[flushes[f].queue_key] IN
           /\ q # flushes[f].queue
           /\ heap[q].status = "accumulating"
           /\ Len(heap[q].messages) = 1
           /\ heap[q].messages[1].received_at >= flushes[f].started_at
           /\ timers[heap[q].timer].state = "sleeping"

\* C27 (as claimed): the step that completes a flush leaves every registry
\* entry other than the flushed batch in place, with its messages and
\* status.
C27_FlushRemovesOnlyItsBatch ==
    [][ \A f \in 1..Len(flushes) :
          (flushes[f].state = "awaiting" /\ flushes'[f].state # "awaiting") =>
              \A k \in DOMAIN active_queues :
                  active_queues[k] # flushes[f].queue =>
                      /\ k \in DOMAIN active_queues'
                      /\ active_queues'[k] = active_queues[k]
                      /\ heap'[active_queues[k]] = heap[active_queues[k]]
      ]_vars

\* C28 (as claimed): a key has at most one pending timer, which is the
\* timer of the batch registered under the key, started by the last enqueue
\* into it; and every timer-triggered flush is by a timer started for the
\* batch it flushes.
C28_OnePendingTimerPerKey ==
    /\ \A k \in AllKeys :
          /\ Cardinality(PendingTimers(k)) <= 1
          /\ \A t \in PendingTimers(k) :
                /\ k \in DOMAIN active_queues
                /\ heap[active_queues[k]].timer = t
                /\ timers[t].for_queue = active_queues[k]
                /\ timers[t].count = Len(heap[active_queues[k]].messages)
    /\ \A f \in 1..Len(flushes) :
          flushes[f].caller = "timer" =>
              timers[flushes[f].timer].for_queue = flushes[f].queue

\* C29 (as claimed): a success result with an entity id means the intake
\* record is processed and linked to that entity.
C29_SuccessMeansRecordLinked ==
    (Returned /\ ec_result.status = "success" /\ ec_result.entity_id # None) =>
        /\ slack_message.processing_status = "processed"
        /\ \/ /\ ec_result.entity_type = "listing"
              /\ slack_message.created_listing_id = ec_result.entity_id
           \/ /\ ec_result.entity_type = "agent_task"
              /\ slack_message.created_task_id = ec_result.entity_id

\* C30: every batch in the registry holds between 1 and MAX_BATCH_SIZE
\* messages, and every call of processor_callback receives between 1 and
\* MAX_BATCH_SIZE messages.
C30_BoundedBatchSize ==
    /\ \A k \in DOMAIN active_queues :
          /\ Len(heap[active_queues[k]].messages) >= 1
          /\ Len(heap[active_queues[k]].messages) <= MAX_BATCH_SIZE
    /\ \A f \in 1..Len(flushes) :
          /\ Len(flushes[f].messages) >= 1
          /\ Len(flushes[f].messages) <= MAX_BATCH_SIZE

\* C30 witness: the registered batch holds MAX_BATCH_SIZE messages, all of
\* them handed to processor_callback, and a further message of the key has
\* arrived since.
C30_Witness ==
    \E f \in 1..Len(flushes) :
        /\ Len(flushes[f].messages) = MAX_BATCH_SIZE
        /\ Len(heap[flushes[f].queue].messages) = MAX_BATCH_SIZE
        /\ \E m \in Msgs(received) :
              /\ KeyOf(m) = flushes[f].queue_key
              /\ m.id > Last(flushes[f].messages).id

====
